---------------------------- MODULE Spec2Model ----------------------------
(***************************************************************************)
(* Model of src/update_notion_ma.py: the moving-average classification    *)
(* engine (sma, ma_slope, stack flags, calc_signals, calc_stage) and the   *)
(* per-page loop of main() that feeds it and writes the result back.       *)
(*                                                                         *)
(* Numbers.  The program computes with Python floats.  The model computes  *)
(* with exact rationals <<n, d>> (d > 0, lowest terms), so a division is a *)
(* real division and a division by zero is an explicit outcome.  An absent *)
(* value (Python None) is the empty tuple.                                 *)
(*                                                                         *)
(* Labels.  The program's stage and signal labels are Chinese strings; the *)
(* model uses the English names the specification gives them (section 4.4  *)
(* and 4.5), in the order of the source.                                   *)
(***************************************************************************)
EXTENDS Integers, Sequences, FiniteSets, TLC

VARIABLES
    pc,            \* position of the run
    pages,         \* main: the page list; pages[k] is TRUE iff page k has a ticker
    i,             \* main: index of the page being processed (0 before the loop)
    ok,            \* main: counter ok
    fail_cnt,      \* main: counter fail_cnt
    skip,          \* main: counter skip
    status,        \* status_code of the last HTTP response read (0: none yet)
    close_values,  \* the series of closes (values / close_values)
    window,        \* sma, ma_slope: parameter window
    lookback,      \* ma_slope: parameter lookback
    sma_out,       \* result of sma(values, window)
    slope_out,     \* result of ma_slope(values, window, lookback)
    last_close,    \* main: last_close, the price handed to the classifier
    ma20, ma50, ma200,        \* main: the three averages
    ma50_prev, ma200_prev,    \* main: yesterday's MA50 and MA200
    slopes,        \* main: <<slope20, slope50, slope200>>
    stacks,        \* main: <<bull_stack, bear_stack>>
    signals,       \* result of calc_signals (a list of tags)
    stage          \* result of calc_stage

vars == <<pc, pages, i, ok, fail_cnt, skip, status, close_values, window,
          lookback, sma_out, slope_out, last_close, ma20, ma50, ma200,
          ma50_prev, ma200_prev, slopes, stacks, signals, stage>>

-----------------------------------------------------------------------------
(* Exact rational arithmetic standing for Python's float arithmetic.       *)

None == <<>>

RECURSIVE GCD(_, _)
GCD(a, b) == IF b = 0 THEN a ELSE GCD(b, a % b)

AbsI(n) == IF n < 0 THEN -n ELSE n

Norm(n, d) ==
    LET g == GCD(AbsI(n), AbsI(d))
        s == IF d < 0 THEN -1 ELSE 1
    IN  <<(s * n) \div g, (s * d) \div g>>

R(n) == <<n, 1>>
Zero == R(0)
One == R(1)

RAdd(a, b) == Norm(a[1] * b[2] + b[1] * a[2], a[2] * b[2])
RSub(a, b) == Norm(a[1] * b[2] - b[1] * a[2], a[2] * b[2])
RMul(a, b) == Norm(a[1] * b[1], a[2] * b[2])
\* a / b, for b # 0 only: Python raises ZeroDivisionError otherwise.
RDiv(a, b) == Norm(a[1] * b[2], a[2] * b[1])
RAbs(a) == <<AbsI(a[1]), a[2]>>
RNeg(a) == <<-a[1], a[2]>>
RLt(a, b) == a[1] * b[2] < b[1] * a[2]
RLe(a, b) == a[1] * b[2] <= b[1] * a[2]
RGt(a, b) == RLt(b, a)
RGe(a, b) == RLe(b, a)

-----------------------------------------------------------------------------
(* Thresholds, update_notion_ma.py lines 35-38.                            *)

NEAR_BAND == Norm(1, 100)       \* 0.01
BREAK_BUF == Norm(5, 1000)      \* 0.005
SLOPE_EPS == Norm(1, 1000)      \* 0.001
SLOPE_LOOKBACK == 5
\* the literal 0.02 of calc_signals and calc_stage
WithinBand == Norm(2, 100)

\* the windows main evaluates
W20 == 20
W50 == 50
W200 == 200

ZeroDivisionError == "ZeroDivisionError"

-----------------------------------------------------------------------------
(* above, below, near: lines 48-57.                                        *)

above(price, ma) ==
    ma # None /\ RGe(price, RMul(ma, RAdd(One, BREAK_BUF)))

below(price, ma) ==
    ma # None /\ RLe(price, RMul(ma, RSub(One, BREAK_BUF)))

\* near divides by ma without a guard: with ma = 0 the call raises.
near_raises(price, ma) == ma # None /\ ma = Zero

near(price, ma) ==
    ma # None /\ RLe(RDiv(RAbs(RSub(price, ma)), ma), NEAR_BAND)

-----------------------------------------------------------------------------
(* Python list slices and sum.                                             *)

Max(a, b) == IF a >= b THEN a ELSE b

\* values[-n:] : the last n elements, the whole list when n > len(values)
\* (n >= 1; values[-0:] is the whole list as well).
LastN(values, n) ==
    SubSeq(values, Max(1, Len(values) - n + 1), Len(values))

\* values[:-n] : all but the last n elements; values[:-0] is values[:0], the
\* empty list.
DropLast(values, n) ==
    IF n = 0 THEN <<>> ELSE SubSeq(values, 1, Max(0, Len(values) - n))

\* sum(values): the built-in sum, here added up by halves so that a series of
\* a few hundred closes needs only a shallow recursion
RECURSIVE sum_between(_, _, _)
sum_between(values, lo, hi) ==
    IF lo > hi THEN 0
    ELSE IF lo = hi THEN values[lo]
    ELSE LET mid == (lo + hi) \div 2
         IN  sum_between(values, lo, mid) + sum_between(values, mid + 1, hi)

sum(values) == sum_between(values, 1, Len(values))

-----------------------------------------------------------------------------
(* sma: lines 161-164.                                                     *)

\* a variant averaging the first `window` elements (values[:window])
sma_first_window(values, w) ==
    IF Len(values) < w THEN None ELSE Norm(sum(SubSeq(values, 1, w)), w)

\* a variant whose length test is off by one (len(values) < window - 1)
sma_off_by_one(values, w) ==
    IF Len(values) + 1 < w THEN None ELSE Norm(sum(LastN(values, w)), w)

sma(values, w) ==
    IF Len(values) < w THEN None ELSE Norm(sum(LastN(values, w)), w)

-----------------------------------------------------------------------------
(* ma_slope: lines 167-184.                                                *)

\* a variant comparing change with 0 instead of SLOPE_EPS
ma_slope_no_eps(values, w, lb) ==
    LET ma_today == sma(values, w)
    IN  IF ma_today = None \/ Len(values) < w + lb THEN "flat"
        ELSE LET ma_prev == sma(DropLast(values, lb), w)
             IN  IF ma_prev = None \/ ma_prev = Zero THEN "flat"
                 ELSE LET change == RDiv(RSub(ma_today, ma_prev), ma_prev)
                      IN  IF RGt(change, Zero) THEN "up"
                          ELSE IF RLt(change, Zero) THEN "down"
                          ELSE "flat"

ma_slope(values, w, lb) ==
    LET ma_today == sma(values, w)
    IN  IF ma_today = None \/ Len(values) < w + lb THEN "flat"
        ELSE LET ma_prev == sma(DropLast(values, lb), w)
             IN  IF ma_prev = None \/ ma_prev = Zero THEN "flat"
                 ELSE LET change == RDiv(RSub(ma_today, ma_prev), ma_prev)
                      IN  IF RGt(change, SLOPE_EPS) THEN "up"
                          ELSE IF RLt(change, RNeg(SLOPE_EPS)) THEN "down"
                          ELSE "flat"

-----------------------------------------------------------------------------
(* The stack flags: main, lines 330-331.                                   *)

\* a variant of bull_stack with >= for >
bull_stack_non_strict(m20, m50, m200) ==
    /\ m20 # None /\ m50 # None /\ m200 # None
    /\ RGe(m20, m50) /\ RGe(m50, m200)

bull_stack_of(m20, m50, m200) ==
    /\ m20 # None /\ m50 # None /\ m200 # None
    /\ RGt(m20, m50) /\ RGt(m50, m200)

bear_stack_of(m20, m50, m200) ==
    /\ m20 # None /\ m50 # None /\ m200 # None
    /\ RLt(m20, m50) /\ RLt(m50, m200)

-----------------------------------------------------------------------------
(* calc_signals: lines 187-224.  Tags, in the order of the source:         *)
(* BullStack (193), BearStack (195), AboveMA50 (198), BelowMA50 (200),     *)
(* AboveMA200 (202), BelowMA200 (204), PullbackMA20 (207),                 *)
(* PullbackMA50 (209), GoldenCross (214), DeathCross (216),                *)
(* EarlyMomentum (221).                                                    *)

Tag(cond, name) == IF cond THEN <<name>> ELSE <<>>

InList(x, list) == \E k \in 1..Len(list) : list[k] = x

\* a variant that ignores yesterday's order of the two averages
cross_tags_no_prev(m50, m200, m50p, m200p) ==
    IF m50 # None /\ m200 # None /\ m50p # None /\ m200p # None
    THEN Tag(RGt(m50, m200), "GoldenCross")
         \o Tag(RLt(m50, m200), "DeathCross")
    ELSE <<>>

\* lines 213-217, the golden / death cross block
cross_tags(m50, m200, m50p, m200p) ==
    IF m50 # None /\ m200 # None /\ m50p # None /\ m200p # None
    THEN Tag(RLe(m50p, m200p) /\ RGt(m50, m200), "GoldenCross")
         \o Tag(RGe(m50p, m200p) /\ RLt(m50, m200), "DeathCross")
    ELSE <<>>

\* The call raises ZeroDivisionError at the first division by a zero average:
\* near(price, ma20) (207), near(price, ma50) (209), or the quotient of 221.
calc_signals_raises(price, m20, m50, m200, m50p, m200p, sl, st) ==
    \/ near_raises(price, m20)
    \/ near_raises(price, m50)
    \/ /\ m20 # None /\ m50 # None
       /\ sl[1] \in {"up", "flat"} /\ RGt(price, m20)
       /\ m50 = Zero

\* The list calc_signals returns when it does not raise.
calc_signals(price, m20, m50, m200, m50p, m200p, sl, st) ==
    Tag(st[1], "BullStack")
    \o Tag(st[2], "BearStack")
    \o Tag(above(price, m50), "AboveMA50")
    \o Tag(below(price, m50), "BelowMA50")
    \o Tag(above(price, m200), "AboveMA200")
    \o Tag(below(price, m200), "BelowMA200")
    \o Tag(near(price, m20), "PullbackMA20")
    \o Tag(near(price, m50), "PullbackMA50")
    \o cross_tags(m50, m200, m50p, m200p)
    \o Tag(/\ m20 # None /\ m50 # None
           /\ sl[1] \in {"up", "flat"}
           /\ RGt(price, m20)
           /\ RLe(RDiv(RAbs(RSub(price, m50)), m50), WithinBand)
           /\ RLt(price, RMul(m50, RAdd(One, BREAK_BUF))),
           "EarlyMomentum")

-----------------------------------------------------------------------------
(* calc_stage: lines 227-272.  The if-statements in the order of the       *)
(* source; a division by a zero MA50 (239 via near, 252, 256) ends the     *)
(* call with ZeroDivisionError at the statement that evaluates it.         *)

StageLabels ==
    {"Uptrend", "BreakoutPullback", "BrokeAboveMA200", "BrokeAboveMA50",
     "PreparingLaunch", "Consolidation", "PressuredRebound",
     "BrokeBelowMA200", "Downtrend"}

\* the quotient abs(price - ma50) / ma50 <= 0.02 of lines 252 and 256
within_band(price, m50) ==
    RLe(RDiv(RAbs(RSub(price, m50)), m50), WithinBand)

\* a variant of rules 6-9 with the final return dropped: falling off the end
\* of the function returns None
calc_stage_from_6_no_default(price, m20, m50, m200, sl, st, sig) ==
    IF m50 # None /\ m50 = Zero THEN ZeroDivisionError
    ELSE IF m50 # None /\ within_band(price, m50) THEN "Consolidation"
    ELSE IF m20 # None /\ m50 # None /\ RLt(price, m50) /\ RGt(price, m20)
    THEN "PressuredRebound"
    ELSE IF m200 # None /\ below(price, m200) THEN "BrokeBelowMA200"
    ELSE IF st[2] /\ m20 # None /\ RLt(price, m20) THEN "Downtrend"
    ELSE "None"

\* rules 6-9 and the final return, lines 255-272
calc_stage_from_6(price, m20, m50, m200, sl, st, sig) ==
    IF m50 # None /\ m50 = Zero THEN ZeroDivisionError
    ELSE IF m50 # None /\ within_band(price, m50) THEN "Consolidation"
    ELSE IF m20 # None /\ m50 # None /\ RLt(price, m50) /\ RGt(price, m20)
    THEN "PressuredRebound"
    ELSE IF m200 # None /\ below(price, m200) THEN "BrokeBelowMA200"
    ELSE IF st[2] /\ m20 # None /\ RLt(price, m20) THEN "Downtrend"
    ELSE "Consolidation"

\* rules 2-5, lines 238-253, then rules 6-9
calc_stage_from_2(price, m20, m50, m200, sl, st, sig) ==
    IF m50 # None /\ RGe(price, m50) /\ near_raises(price, m50)
    THEN ZeroDivisionError
    ELSE IF /\ m50 # None /\ RGe(price, m50) /\ near(price, m50)
            /\ InList("AboveMA50", sig)
    THEN "BreakoutPullback"
    ELSE IF m200 # None /\ above(price, m200) THEN "BrokeAboveMA200"
    ELSE IF m50 # None /\ above(price, m50) THEN "BrokeAboveMA50"
    ELSE IF /\ m20 # None /\ m50 # None
            /\ RGt(price, m20) /\ sl[1] \in {"up", "flat"}
            /\ m50 = Zero
    THEN ZeroDivisionError
    ELSE IF /\ m20 # None /\ m50 # None
            /\ RGt(price, m20) /\ sl[1] \in {"up", "flat"}
            /\ within_band(price, m50)
            /\ RLt(price, RMul(m50, RAdd(One, BREAK_BUF)))
    THEN "PreparingLaunch"
    ELSE calc_stage_from_6(price, m20, m50, m200, sl, st, sig)

\* a variant with the MA200 breakout tested before rule 1
calc_stage_200_first(price, m20, m50, m200, sl, st, sig) ==
    IF m200 # None /\ above(price, m200) THEN "BrokeAboveMA200"
    ELSE IF st[1] /\ m20 # None /\ RGt(price, m20) /\ sl[2] # "down"
    THEN "Uptrend"
    ELSE calc_stage_from_2(price, m20, m50, m200, sl, st, sig)

\* rule 1, lines 234-236, then rules 2-9
calc_stage(price, m20, m50, m200, sl, st, sig) ==
    IF st[1] /\ m20 # None /\ RGt(price, m20) /\ sl[2] # "down"
    THEN "Uptrend"
    ELSE calc_stage_from_2(price, m20, m50, m200, sl, st, sig)

-----------------------------------------------------------------------------
(* Values a variable holds before the program has assigned it.             *)

Unbound == "unbound"
NoSlopes == <<Unbound, Unbound, Unbound>>
NoStacks == <<FALSE, FALSE>>

\* main's loop has not run: no pages, counters untouched
MainIdle ==
    /\ pages = <<>> /\ i = 0 /\ ok = 0 /\ fail_cnt = 0 /\ skip = 0
    /\ status = 0

\* sma / ma_slope are not being called on their own
FnIdle ==
    /\ window = 0 /\ lookback = 0 /\ sma_out = None /\ slope_out = Unbound

\* the classifier's locals are unassigned
ClassifierIdle ==
    /\ last_close = None
    /\ ma20 = None /\ ma50 = None /\ ma200 = None
    /\ ma50_prev = None /\ ma200_prev = None
    /\ slopes = NoSlopes /\ stacks = NoStacks
    /\ signals = <<>> /\ stage = Unbound

mainVars == <<pages, i, ok, fail_cnt, skip, status>>
fnVars == <<window, lookback, sma_out, slope_out>>
inputVars == <<last_close, ma20, ma50, ma200, ma50_prev, ma200_prev, slopes>>

SeqsUpTo(S, n) == UNION {[1..k -> S] : k \in 0..n}
SlopeNames == {"up", "down", "flat"}

-----------------------------------------------------------------------------
(* SpecSma: sma and ma_slope called on every small series.                 *)

MaxLen == 4
MaxWindow == 3
MaxLookback == 2
\* closes around 1000 so that one step is 0.1% of the average, a negative
\* one and zero
SmaVals == {-1000, 0, 1000, 1001, 1002}

InitSma ==
    /\ pc = "call_sma"
    /\ close_values \in SeqsUpTo(SmaVals, MaxLen)
    /\ window \in 1..MaxWindow
    /\ lookback \in 0..MaxLookback
    /\ sma_out = None /\ slope_out = Unbound
    /\ MainIdle /\ ClassifierIdle

CallSma ==
    /\ pc = "call_sma"
    /\ sma_out' = sma(close_values, window)
    /\ pc' = "call_ma_slope"
    /\ UNCHANGED <<close_values, window, lookback, slope_out>>
    /\ UNCHANGED <<mainVars, inputVars, stacks, signals, stage>>

CallMaSlope ==
    /\ pc = "call_ma_slope"
    /\ slope_out' = ma_slope(close_values, window, lookback)
    /\ pc' = "returned"
    /\ UNCHANGED <<close_values, window, lookback, sma_out>>
    /\ UNCHANGED <<mainVars, inputVars, stacks, signals, stage>>

NextSma == CallSma \/ CallMaSlope

SpecSma == InitSma /\ [][NextSma]_vars

-----------------------------------------------------------------------------
(* Properties of sma and ma_slope, under SpecSma.                          *)

\* values[lo] + ... + values[hi], summed by index
RECURSIVE SumRange(_, _, _)
SumRange(values, lo, hi) ==
    IF lo > hi THEN 0 ELSE values[hi] + SumRange(values, lo, hi - 1)

\* the sum of the last w elements of a series of at least w elements
SumLastW(values, w) == SumRange(values, Len(values) - w + 1, Len(values))

SmaReturned == pc \in {"call_ma_slope", "returned"}

\* C4: sma(values, window) is absent when len(values) < window; otherwise it
\* is the arithmetic mean of the last `window` elements (sma * window equals
\* their sum) and it does not change when an earlier element is replaced by
\* any other value.
C4_SmaIsMeanOfLastWindow ==
    SmaReturned =>
        LET n == Len(close_values) IN
        /\ n < window => sma_out = None
        /\ n >= window =>
            /\ sma_out # None
            /\ sma_out[1] * window = sma_out[2] * SumLastW(close_values, window)
            /\ \A k \in 1..(n - window) : \A x \in SmaVals :
                   sma([close_values EXCEPT ![k] = x], window) = sma_out

\* a series longer than the window whose first element differs from all of the
\* last `window` ones, with the average computed
C4_Witness ==
    /\ SmaReturned
    /\ Len(close_values) > window
    /\ sma_out # None
    /\ \A k \in (Len(close_values) - window + 1)..Len(close_values) :
           close_values[k] # close_values[1]

\* C5: ma_slope is flat when len(values) < window + lookback or when the
\* earlier average (the SMA of the series without its last `lookback` points)
\* is absent or zero; otherwise, with change = (maToday - maPrev) / maPrev, it
\* is up iff change > 0.001, down iff change < -0.001, flat otherwise.
\* With sT and sP the window sums behind maToday and maPrev, change is
\* (sT - sP) / sP, compared with 1/1000 by cross-multiplication.
C5_SlopeClassification ==
    pc = "returned" =>
        LET n == Len(close_values)
            earlier == SubSeq(close_values, 1, n - lookback)
            short == n < window + lookback
            sT == SumLastW(close_values, window)
            sP == SumLastW(earlier, window)
            gtEps == IF sP > 0 THEN 1000 * (sT - sP) > sP
                               ELSE 1000 * (sT - sP) < sP
            ltNegEps == IF sP > 0 THEN 1000 * (sT - sP) < -sP
                                  ELSE 1000 * (sT - sP) > -sP
        IN  IF short \/ Len(earlier) < window \/ sP = 0
            THEN slope_out = "flat"
            ELSE /\ slope_out = "up" <=> gtEps
                 /\ slope_out = "down" <=> ltNegEps
                 /\ slope_out = "flat" <=> (~gtEps /\ ~ltNegEps)

\* a rise of more than 0.1% over a positive lookback, classified up
C5_Witness ==
    /\ pc = "returned"
    /\ lookback >= 1
    /\ Len(close_values) >= window + lookback
    /\ slope_out = "up"

-----------------------------------------------------------------------------
(* SpecClassify: the classification steps of main (lines 330-343) applied  *)
(* to every combination of a price, three averages (each possibly absent), *)
(* yesterday's MA50 / MA200 and three slopes.  An uncaught                 *)
(* ZeroDivisionError ends the run with a traceback.                        *)

PriceVals == {R(950), R(970), R(1000), R(1008), R(1030)}
MaVals == {None, R(0), R(960), R(1000), R(1010)}
PrevVals == {None, R(990), R(1000)}

InitClassify ==
    /\ pc = "stacks_signals"
    /\ last_close \in PriceVals
    /\ ma20 \in MaVals /\ ma50 \in MaVals /\ ma200 \in MaVals
    /\ ma50_prev \in PrevVals /\ ma200_prev \in PrevVals
    /\ slopes \in SlopeNames \X SlopeNames \X SlopeNames
    /\ stacks = NoStacks /\ signals = <<>> /\ stage = Unbound
    /\ close_values = <<>>
    /\ MainIdle /\ FnIdle

\* lines 330-337: the stack flags, then calc_signals
StacksAndSignals ==
    /\ pc = "stacks_signals"
    /\ LET st == <<bull_stack_of(ma20, ma50, ma200),
                   bear_stack_of(ma20, ma50, ma200)>>
       IN  /\ stacks' = st
           /\ IF calc_signals_raises(last_close, ma20, ma50, ma200,
                                     ma50_prev, ma200_prev, slopes, st)
              THEN /\ pc' = "Traceback"
                   /\ UNCHANGED signals
              ELSE /\ pc' = "stage"
                   /\ signals' = calc_signals(last_close, ma20, ma50, ma200,
                                              ma50_prev, ma200_prev, slopes, st)
    /\ UNCHANGED <<mainVars, fnVars, inputVars, close_values, stage>>

\* lines 338-343: calc_stage on the signals just computed
Stage ==
    /\ pc = "stage"
    /\ LET s == calc_stage(last_close, ma20, ma50, ma200, slopes, stacks,
                           signals)
       IN  IF s = ZeroDivisionError
           THEN pc' = "Traceback" /\ UNCHANGED stage
           ELSE pc' = "classified" /\ stage' = s
    /\ UNCHANGED <<mainVars, fnVars, inputVars, close_values, stacks, signals>>

NextClassify == StacksAndSignals \/ Stage

SpecClassify == InitClassify /\ [][NextClassify]_vars

-----------------------------------------------------------------------------
(* Properties of the stack flags, calc_signals and calc_stage,             *)
(* under SpecClassify.                                                     *)

\* order of two present values, by cross-multiplication
Less(a, b) == a[1] * b[2] < b[1] * a[2]
AllPresent == ma20 # None /\ ma50 # None /\ ma200 # None

SignalsReturned == pc \in {"stage", "classified"}
StacksComputed == pc \in {"stage", "classified", "Traceback"}

\* C6: bullStack and bearStack are never both true; bullStack holds iff all
\* three SMAs are present and ma20 > ma50 > ma200, bearStack iff all three are
\* present and ma20 < ma50 < ma200; both are false when an SMA is absent or
\* two of them are equal.
C6_StacksExclusive ==
    StacksComputed =>
        /\ ~(stacks[1] /\ stacks[2])
        /\ stacks[1] <=> (AllPresent /\ Less(ma50, ma20) /\ Less(ma200, ma50))
        /\ stacks[2] <=> (AllPresent /\ Less(ma20, ma50) /\ Less(ma50, ma200))
        /\ (~AllPresent \/ ma20 = ma50 \/ ma50 = ma200 \/ ma20 = ma200)
               => stacks = <<FALSE, FALSE>>

\* three present averages in strictly descending order, flagged bull only
C6_Witness ==
    /\ StacksComputed
    /\ AllPresent /\ Less(ma50, ma20) /\ Less(ma200, ma50)
    /\ stacks = <<TRUE, FALSE>>

FourPresent ==
    ma50 # None /\ ma200 # None /\ ma50_prev # None /\ ma200_prev # None

\* C7: the signal list holds GoldenCross iff ma50, ma200, ma50Prev and
\* ma200Prev are all present, ma50Prev <= ma200Prev and ma50 > ma200; it holds
\* DeathCross iff all four are present, ma50Prev >= ma200Prev and
\* ma50 < ma200; it never holds both, and holds neither when one of the four
\* is absent.
C7_CrossSignals ==
    SignalsReturned =>
        /\ InList("GoldenCross", signals) <=>
               (/\ FourPresent
                /\ ~Less(ma200_prev, ma50_prev)
                /\ Less(ma200, ma50))
        /\ InList("DeathCross", signals) <=>
               (/\ FourPresent
                /\ ~Less(ma50_prev, ma200_prev)
                /\ Less(ma50, ma200))
        /\ ~(InList("GoldenCross", signals) /\ InList("DeathCross", signals))
        /\ ~FourPresent =>
               (~InList("GoldenCross", signals) /\ ~InList("DeathCross", signals))

\* MA50 below MA200 yesterday and above it today: GoldenCross, no DeathCross
C7_Witness ==
    /\ SignalsReturned
    /\ FourPresent
    /\ Less(ma50_prev, ma200_prev) /\ Less(ma200, ma50)
    /\ InList("GoldenCross", signals)
    /\ ~InList("DeathCross", signals)

\* The nine rules as the specification words them (section 4.5), on the
\* inputs of the current state.
Near50(band) ==
    LET d == IF Less(last_close, ma50) THEN RSub(ma50, last_close)
                                       ELSE RSub(last_close, ma50)
    IN  IF Less(Zero, ma50) THEN ~Less(RMul(band, ma50), d)
                            ELSE ~Less(d, RMul(band, ma50))

RuleHolds(k) ==
    CASE k = 1 -> /\ stacks[1] /\ ma20 # None /\ Less(ma20, last_close)
                  /\ slopes[2] # "down"
      [] k = 2 -> /\ ma50 # None /\ ~Less(last_close, ma50)
                  /\ Near50(NEAR_BAND)
                  /\ InList("AboveMA50", signals)
      [] k = 3 -> ma200 # None /\ above(last_close, ma200)
      [] k = 4 -> ma50 # None /\ above(last_close, ma50)
      [] k = 5 -> /\ ma20 # None /\ ma50 # None
                  /\ Less(ma20, last_close)
                  /\ slopes[1] \in {"up", "flat"}
                  /\ Near50(WithinBand)
                  /\ Less(last_close, RMul(ma50, RAdd(One, BREAK_BUF)))
      [] k = 6 -> ma50 # None /\ Near50(WithinBand)
      [] k = 7 -> /\ ma20 # None /\ ma50 # None
                  /\ Less(last_close, ma50) /\ Less(ma20, last_close)
      [] k = 8 -> ma200 # None /\ below(last_close, ma200)
      [] k = 9 -> stacks[2] /\ ma20 # None /\ Less(last_close, ma20)

RuleLabel(k) ==
    CASE k = 1 -> "Uptrend"
      [] k = 2 -> "BreakoutPullback"
      [] k = 3 -> "BrokeAboveMA200"
      [] k = 4 -> "BrokeAboveMA50"
      [] k = 5 -> "PreparingLaunch"
      [] k = 6 -> "Consolidation"
      [] k = 7 -> "PressuredRebound"
      [] k = 8 -> "BrokeBelowMA200"
      [] k = 9 -> "Downtrend"

Matching == {k \in 1..9 : RuleHolds(k)}
FirstMatching == CHOOSE k \in Matching : \A j \in Matching : k <= j

\* C1: whenever calc_stage returns, the stage is the label of the
\* lowest-numbered rule whose condition holds, Consolidation when none holds;
\* an input on which rule 1 holds yields Uptrend whatever else holds.
C1_PriorityChain ==
    pc = "classified" =>
        /\ Matching # {} => stage = RuleLabel(FirstMatching)
        /\ Matching = {} => stage = "Consolidation"
        /\ RuleHolds(1) => stage = "Uptrend"

\* rule 1 and the later rule 3 both hold, and the stage is Uptrend
C1_Witness ==
    /\ pc = "classified"
    /\ RuleHolds(1) /\ RuleHolds(3)
    /\ stage = "Uptrend"

\* C3: on every input on which calc_stage is evaluated it returns a value,
\* and the value is one of the nine stage labels.
C3_StageIsALabel ==
    /\ pc = "stage" =>
           calc_stage(last_close, ma20, ma50, ma200, slopes, stacks, signals)
               \in StageLabels
    /\ pc = "classified" => stage \in StageLabels

\* no rule matches (all averages absent): the fall-through label is returned
C3_Witness ==
    /\ pc = "classified"
    /\ Matching = {}
    /\ stage = "Consolidation"

\* The stage main computes from a price, three present averages and three
\* slopes: the stack flags of lines 330-331, calc_signals, then calc_stage.
\* The cross signals play no part in calc_stage, so yesterday's averages are
\* left absent.
StageFor(p, m20, m50, m200, sl) ==
    LET st == <<bull_stack_of(m20, m50, m200), bear_stack_of(m20, m50, m200)>>
    IN  calc_stage(p, m20, m50, m200, sl, st,
                   calc_signals(p, m20, m50, m200, None, None, sl, st))

\* positive prices and averages: 0.1%, 0.4%, 0.5%, 0.6%, 1% and 5% around 1000
PosGrid ==
    {R(n) : n \in {950, 990, 994, 995, 996, 999, 1000, 1001, 1004, 1005,
                   1006, 1010, 1050}}

\* C9: every one of the nine stage labels is returned for some input with a
\* positive price and positive averages, the stack flags derived from the
\* averages; Downtrend (rule 9) among them.
C9_EveryLabelReachable ==
    \A label \in StageLabels :
        \/ stage = label
        \/ \E p \in PosGrid, m20 \in PosGrid, m50 \in PosGrid, m200 \in PosGrid :
               \E sl \in SlopeNames \X SlopeNames \X SlopeNames :
                   StageFor(p, m20, m50, m200, sl) = label

\* What the code does instead: where rule 9's condition holds, rule 6 or
\* rule 8 holds as well and is tested first, so Downtrend is never returned.
Rule9Shadowed ==
    (SignalsReturned /\ RuleHolds(9)) => (RuleHolds(6) \/ RuleHolds(8))

DowntrendNeverReturned == stage # "Downtrend"

-----------------------------------------------------------------------------
(* Spec: main(), lines 297-354.  The page list is queried, then every page *)
(* is processed in turn: ticker, closes, classification, write-back.  The  *)
(* HTTP peers (Notion, Stooq) are the environment: their answers are       *)
(* chosen nondeterministically.                                            *)

MaxPages == 2

\* n closes: a up to the last m of them, b from there on
Series(n, m, a, b) == [k \in 1..n |-> IF k <= n - m THEN a ELSE b]

\* every length below the shortest window, and lengths at and just past each
\* window and each window + lookback
SeriesLens ==
    (1..(W20 - 1))
    \cup {W20, W20 + SLOPE_LOOKBACK - 1, W20 + SLOPE_LOOKBACK,
          W50, W50 + SLOPE_LOOKBACK,
          W200, W200 + 1, W200 + SLOPE_LOOKBACK}
TailLens == {0, 1, SLOPE_LOOKBACK}
CloseVals == {0, 100, 103}

SeriesFamily ==
    {Series(n, m, a, b) : n \in SeriesLens, m \in TailLens,
                          a \in CloseVals, b \in CloseVals}

\* status codes other than 200 a peer may answer with
ErrorStatus == {500}

Init ==
    /\ pc = "query"
    /\ close_values = <<>>
    /\ MainIdle /\ FnIdle /\ ClassifierIdle

\* line 299, notion_query_all_pages answered with 200: a list of pages, each
\* with or without a ticker
QueryOk ==
    /\ pc = "query"
    /\ \E ps \in SeqsUpTo(BOOLEAN, MaxPages) : pages' = ps
    /\ status' = 200
    /\ i' = 1
    /\ pc' = "loop"
    /\ UNCHANGED <<ok, fail_cnt, skip, close_values, fnVars, inputVars,
                   stacks, signals, stage>>

\* lines 64-65 / 85-86: a query answered with another status calls fail(),
\* which raises SystemExit (line 45)
QueryFail ==
    /\ pc = "query"
    /\ \E c \in ErrorStatus : status' = c
    /\ pc' = "SystemExit"
    /\ UNCHANGED <<pages, i, ok, fail_cnt, skip, close_values, fnVars,
                   inputVars, stacks, signals, stage>>

\* lines 305-308: the page has no ticker
SkipPage ==
    /\ pc = "loop" /\ i <= Len(pages) /\ ~pages[i]
    /\ skip' = skip + 1
    /\ i' = i + 1
    /\ UNCHANGED <<pc, pages, ok, fail_cnt, status, close_values, fnVars,
                   inputVars, stacks, signals, stage>>

\* lines 310-314: fetch_daily_closes_from_stooq returned None
NoCloses ==
    /\ pc = "loop" /\ i <= Len(pages) /\ pages[i]
    /\ fail_cnt' = fail_cnt + 1
    /\ i' = i + 1
    /\ UNCHANGED <<pc, pages, ok, skip, status, close_values, fnVars,
                   inputVars, stacks, signals, stage>>

\* lines 310-343: a non-empty series was fetched and is classified.  A
\* ZeroDivisionError raised by calc_signals or calc_stage is outside the try
\* of line 345 and ends the run with a traceback.
Classify ==
    /\ pc = "loop" /\ i <= Len(pages) /\ pages[i]
    /\ \E cv \in SeriesFamily :
        LET price == R(cv[Len(cv)])
            m20 == sma(cv, W20)
            m50 == sma(cv, W50)
            m200 == sma(cv, W200)
            m50p == sma(DropLast(cv, 1), W50)
            m200p == sma(DropLast(cv, 1), W200)
            sl == <<ma_slope(cv, W20, SLOPE_LOOKBACK),
                    ma_slope(cv, W50, SLOPE_LOOKBACK),
                    ma_slope(cv, W200, SLOPE_LOOKBACK)>>
            st == <<bull_stack_of(m20, m50, m200),
                    bear_stack_of(m20, m50, m200)>>
            sigRaises == calc_signals_raises(price, m20, m50, m200, m50p,
                                             m200p, sl, st)
            sig == calc_signals(price, m20, m50, m200, m50p, m200p, sl, st)
            stg == calc_stage(price, m20, m50, m200, sl, st, sig)
        IN  /\ close_values' = cv
            /\ last_close' = price
            /\ ma20' = m20 /\ ma50' = m50 /\ ma200' = m200
            /\ ma50_prev' = m50p /\ ma200_prev' = m200p
            /\ slopes' = sl
            /\ stacks' = st
            /\ IF sigRaises
               THEN pc' = "Traceback" /\ UNCHANGED <<signals, stage>>
               ELSE /\ signals' = sig
                    /\ IF stg = ZeroDivisionError
                       THEN pc' = "Traceback" /\ UNCHANGED stage
                       ELSE pc' = "update" /\ stage' = stg
    /\ UNCHANGED <<mainVars, fnVars>>

\* The locals of one iteration are all assigned again before the next one
\* reads them; the model clears them at the end of the iteration.
ClearLocals ==
    /\ close_values' = <<>>
    /\ last_close' = None
    /\ ma20' = None /\ ma50' = None /\ ma200' = None
    /\ ma50_prev' = None /\ ma200_prev' = None
    /\ slopes' = NoSlopes /\ stacks' = NoStacks
    /\ signals' = <<>> /\ stage' = Unbound

\* lines 345-349: the PATCH is answered with 200
UpdateOk ==
    /\ pc = "update"
    /\ status' = 200
    /\ ok' = ok + 1
    /\ i' = i + 1
    /\ pc' = "loop"
    /\ ClearLocals
    /\ UNCHANGED <<pages, fail_cnt, skip, fnVars>>

\* lines 293-294, 41-45: the PATCH is answered with another status;
\* notion_update_page calls fail(), which raises SystemExit.  SystemExit is
\* not an Exception, so the except clause of line 350 does not catch it and
\* the run ends there.
UpdateRejected ==
    /\ pc = "update"
    /\ \E c \in ErrorStatus : status' = c
    /\ pc' = "SystemExit"
    /\ UNCHANGED <<pages, i, ok, fail_cnt, skip, close_values, fnVars,
                   inputVars, stacks, signals, stage>>

\* lines 350-352: requests.patch raised (timeout, connection error), an
\* Exception: caught, counted, and the loop goes on
UpdateRaised ==
    /\ pc = "update"
    /\ fail_cnt' = fail_cnt + 1
    /\ i' = i + 1
    /\ pc' = "loop"
    /\ ClearLocals
    /\ UNCHANGED <<pages, ok, skip, status, fnVars>>

\* line 354: the list is exhausted, Done is printed
Done ==
    /\ pc = "loop" /\ i > Len(pages)
    /\ pc' = "done"
    /\ UNCHANGED <<pages, i, ok, fail_cnt, skip, status, close_values,
                   fnVars, inputVars, stacks, signals, stage>>

Next ==
    \/ QueryOk \/ QueryFail
    \/ SkipPage \/ NoCloses \/ Classify
    \/ UpdateOk \/ UpdateRejected \/ UpdateRaised
    \/ Done

Spec == Init /\ [][Next]_vars

-----------------------------------------------------------------------------
(* Properties of the run of main, under Spec.                              *)

\* a series has been fetched and run through the classification steps
SeriesProcessed == close_values # <<>>

\* C8: a non-empty series of fewer than 20 closes goes through the pipeline
\* without error: the three SMAs are absent, the three slopes flat, the signal
\* list empty and the stage Consolidation.
C8_ShortHistoryDegrades ==
    (SeriesProcessed /\ Len(close_values) < W20) =>
        /\ pc # "Traceback"
        /\ ma20 = None /\ ma50 = None /\ ma200 = None
        /\ slopes = <<"flat", "flat", "flat">>
        /\ signals = <<>>
        /\ stage = "Consolidation"

\* the longest short series, 19 closes ending in a move, classified
C8_Witness ==
    /\ pc = "update"
    /\ Len(close_values) = W20 - 1
    /\ close_values[1] # close_values[Len(close_values)]
    /\ stage = "Consolidation"
    /\ signals = <<>>

\* C2: the classification never raises on a series whose moving average is
\* zero: it completes with the neutral defaults (no ZeroDivisionError).
C2_ZeroAverageNeverRaises ==
    (SeriesProcessed /\ ma20 = Zero) =>
        /\ pc # "Traceback"
        /\ stage \in StageLabels

\* C10: a page whose write-back is answered with a status other than 200 is
\* counted in fail_cnt and the run goes on to the later pages and to Done.
C10_FailedWriteDoesNotStop ==
    (i >= 1 /\ status # 200) =>
        /\ pc \in {"loop", "update", "done"}
        /\ fail_cnt >= 1

\* C10, the summary: a run that obtained the page list and has ended has
\* printed Done with ok + fail + skip equal to the number of pages.  The runs
\* that reach Done do satisfy the count.
DoneCountsEveryPage ==
    pc = "done" => ok + fail_cnt + skip = Len(pages)

=============================================================================
